---- MODULE Spec2Model ----
(***************************************************************************)
(* Model of `railway run` (src/src/commands/run.rs): the command resolves  *)
(* an environment, resolves a variable source (one service, or all the     *)
(* plugins of a project without services), fetches the variables, installs *)
(* a no-op CTRL+C handler and runs the trailing arguments in a shell with  *)
(* the variables in the environment.                                       *)
(*                                                                         *)
(* Option<T> is modelled as a sequence: <<>> is None, <<x>> is Some(x).    *)
(* Init is the state after lines 96-100: configs loaded, client built,     *)
(* linked project read and project fetched.                                *)
(***************************************************************************)
EXTENDS Integers, Sequences, FiniteSets, TLC

VARIABLES
    pc,               \* position in `command`
    args,             \* Args {service, environment, args}
    linked_project,   \* configs.get_linked_project(): {environment, service}
    project,          \* get_project(): {services, plugins, environments}
    stdout_tty,       \* std::io::stdout().is_terminal()
    environment_id,   \* Option: id returned by get_matched_environment
    service,          \* Option: the ServiceOrPlugins returned by the resolver
    prompted,         \* prompt_select was invoked
    prompt,           \* Option: the items offered by prompt_select and the user's choice
    fetches,          \* variable fetches issued so far, in order
    variables,        \* Option: the aggregated variable mapping
    handler_installs, \* number of successful ctrlc::set_handler calls
    handler_result,   \* Option: what ctrlc::set_handler returned, "Ok" or "Err"
    shell,            \* Option: the identifier returned by get_shell
    child,            \* Option: the spawned child {program, args, env}
    exit_status,      \* Option: the ExitStatus of the child
    result            \* Option: how the command ended

vars == <<pc, args, linked_project, project, stdout_tty, environment_id, service,
          prompted, prompt, fetches, variables, handler_installs, handler_result, shell,
          child, exit_status, result>>

None == <<>>
Some(x) == <<x>>

----------------------------------------------------------------------------
(* Bounds of the model *)
MaxServices == 2
MaxPlugins == 2
MaxArgs == 2

(* Universes the inputs are drawn from *)
ServiceIds == {"s1", "s2", "s3"}
ServiceNames == {"web", "s1"}
PluginIdSeq == <<"p1", "p2", "p3", "p4">>
WordSeq == <<"echo", "hi", "there", "all">>
ServiceArgs == {None, Some("s1")}
LinkedServices == {None, Some("s1")}
EnvironmentArgs == {None, Some("staging"), Some("missing")}
LinkedEnvironments == {"production", "gone"}
Environments == << [id |-> "e1", name |-> "production"], [id |-> "e2", name |-> "staging"] >>
Shells == {"powershell", "pwsh", "cmd", "sh", "bash"}
ExitCodes == {0, 1, 7}
VarMaps == { ("A" :> "1"), ("A" :> "2") @@ ("B" :> "3") }
ParentEnv == ("A" :> "0") @@ ("HOME" :> "/root")

Reverse(s) == [i \in 1..Len(s) |-> s[Len(s) + 1 - i]]

Nodes == [id : ServiceIds, name : ServiceNames]

\* Service lists of the project: identifiers are unique within a project,
\* names are not.
ServiceLists ==
    UNION { { s \in [1..k -> Nodes] :
                \A i, j \in 1..k : i # j => s[i].id # s[j].id } : k \in 0..MaxServices }

PluginLists == { SubSeq(PluginIdSeq, 1, n) : n \in 0..MaxPlugins }

ArgLists ==
    { SubSeq(WordSeq, 1, n) : n \in 0..MaxArgs }
        \cup { Reverse(SubSeq(WordSeq, 1, n)) : n \in 0..MaxArgs }

----------------------------------------------------------------------------
(* Pure functions *)

\* Mutant: a service whose id is the argument is preferred to an earlier one
\* whose name is the argument
RECURSIVE find_id_first(_, _, _)
find_id_first(services, service_arg, i) ==
    IF \E j \in i..Len(services) : services[j].id = service_arg
    THEN Some(services[CHOOSE j \in i..Len(services) : services[j].id = service_arg])
    ELSE IF i > Len(services) THEN None
    ELSE IF services[i].name = service_arg
         THEN Some(services[i])
         ELSE find_id_first(services, service_arg, i + 1)

\* services.iter().find(|s| s.node.name == service_arg || s.node.id == service_arg)
RECURSIVE find(_, _, _)
find(services, service_arg, i) ==
    IF i > Len(services) THEN None
    ELSE IF services[i].name = service_arg \/ services[i].id = service_arg
         THEN Some(services[i])
         ELSE find(services, service_arg, i + 1)

Ok(v, p) == [ok |-> TRUE, value |-> v, prompted |-> p]
Err(e, p) == [ok |-> FALSE, error |-> e, prompted |-> p]
Service(id) == [tag |-> "Service", id |-> id]
Plugins(ids) == [tag |-> "Plugins", ids |-> ids]

\* Mutant: the plugin identifiers are collected in reverse
plugin_ids_reversed(proj) ==
    [i \in 1..Len(proj.plugins) |-> proj.plugins[Len(proj.plugins) + 1 - i]]

\* project.plugins.edges.iter().map(|plugin| plugin.node.id.to_owned()).collect()
plugin_ids(proj) == [i \in 1..Len(proj.plugins) |-> proj.plugins[i]]

\* Mutant: the argument itself is returned as the id of the service found
explicit_service_returns_arg(services, service_arg) ==
    IF find(services, service_arg, 1) # None
    THEN Ok(Service(service_arg), FALSE)
    ELSE Err("ServiceNotFound", FALSE)

\* lines 46-55: the user specified a service
explicit_service(services, service_arg) ==
    LET service_id == find(services, service_arg, 1) IN
    IF service_id # None
    THEN Ok(Service(service_id[1].id), FALSE)
    ELSE Err("ServiceNotFound", FALSE)

\* Mutant: a project with one service is treated like one with several
default_source_no_sole(proj, tty, choice) ==
    LET services == proj.services IN
    IF Len(services) = 0 THEN
        Ok(Plugins(plugin_ids(proj)), FALSE)
    ELSE IF tty THEN
        IF choice = 0
        THEN Err("PromptAborted", TRUE)
        ELSE Ok(Service(services[choice].id), TRUE)
    ELSE Err("AmbiguousServiceSelection", FALSE)

\* Mutant: without a terminal the first of several services is taken
default_source_takes_first(proj, tty, choice) ==
    LET services == proj.services IN
    IF Len(services) = 0 THEN
        Ok(Plugins(plugin_ids(proj)), FALSE)
    ELSE IF Len(services) = 1 THEN
        Ok(Service(services[1].id), FALSE)
    ELSE IF tty THEN
        IF choice = 0
        THEN Err("PromptAborted", TRUE)
        ELSE Ok(Service(services[choice].id), TRUE)
    ELSE Ok(Service(services[1].id), FALSE)

\* lines 82-83: services.iter().map(|s| PromptService(&s.node)).collect()
prompt_services(proj) == [i \in 1..Len(proj.services) |-> proj.services[i]]

\* Mutant: the items are offered in one order and the choice is looked up in
\* the other
default_source_other_choice(proj, tty, choice) ==
    LET services == proj.services IN
    IF Len(services) = 0 THEN
        Ok(Plugins(plugin_ids(proj)), FALSE)
    ELSE IF Len(services) = 1 THEN
        Ok(Service(services[1].id), FALSE)
    ELSE IF tty THEN
        IF choice = 0
        THEN Err("PromptAborted", TRUE)
        ELSE Ok(Service(services[Len(services) + 1 - choice].id), TRUE)
    ELSE Err("AmbiguousServiceSelection", FALSE)

\* lines 59-90: neither a service argument nor a linked service.  `tty` is
\* what is_terminal() answers and `choice` what the user does at the prompt
\* (0: aborts, i: picks the i-th item); both are read only on the branch that
\* asks for them.
default_source(proj, tty, choice) ==
    LET services == proj.services IN
    IF Len(services) = 0 THEN
        Ok(Plugins(plugin_ids(proj)), FALSE)
    ELSE IF Len(services) = 1 THEN
        Ok(Service(services[1].id), FALSE)
    ELSE IF tty THEN
        IF choice = 0
        THEN Err("PromptAborted", TRUE)
        ELSE Ok(Service(services[choice].id), TRUE)
    ELSE Err("AmbiguousServiceSelection", FALSE)

\* Mutant: the linked service is looked at before the service argument
get_service_or_plugins_linked_first(linked, proj, service_arg, tty, choice) ==
    IF linked.service # None THEN Ok(Service(linked.service[1]), FALSE)
    ELSE IF service_arg # None THEN explicit_service(proj.services, service_arg[1])
    ELSE default_source(proj, tty, choice)

\* Mutant: the linked service is looked up in the project like an argument
get_service_or_plugins_checks_link(linked, proj, service_arg, tty, choice) ==
    IF service_arg # None THEN explicit_service(proj.services, service_arg[1])
    ELSE IF linked.service # None THEN explicit_service(proj.services, linked.service[1])
    ELSE default_source(proj, tty, choice)

\* get_service_or_plugins, lines 37-93
get_service_or_plugins(linked, proj, service_arg, tty, choice) ==
    IF service_arg # None THEN explicit_service(proj.services, service_arg[1])
    ELSE IF linked.service # None THEN Ok(Service(linked.service[1]), FALSE)
    ELSE default_source(proj, tty, choice)

\* get_matched_environment: the environment whose name is the requested one
RECURSIVE get_matched_environment(_, _, _)
get_matched_environment(proj, environment, i) ==
    IF i > Len(proj.environments) THEN None
    ELSE IF proj.environments[i].name = environment
         THEN Some(proj.environments[i])
         ELSE get_matched_environment(proj, environment, i + 1)

\* Mutant: the arm of pwsh is missing
shell_options_no_pwsh(sh) ==
    CASE sh = "powershell" -> <<"/nologo", "-Command", "\"">>
      [] sh = "cmd" -> <<"/C">>
      [] sh = "sh" -> <<"-c">>
      [] OTHER -> <<>>

\* the match on shell.as_str()
shell_options(sh) ==
    CASE sh = "powershell" -> <<"/nologo", "-Command", "\"">>
      [] sh = "pwsh" -> <<"/nologo", "-Command", "\"">>
      [] sh = "cmd" -> <<"/C">>
      [] sh = "sh" -> <<"-c">>
      [] OTHER -> <<>>

\* Command::new(shell).args(shell_options).args(args): the argument vector
child_args(sh, trailing) == shell_options(sh) \o trailing

\* Mutant: a variable the parent already has keeps the parent's value
envs_parent_wins(parent, vs) ==
    [k \in DOMAIN parent \cup DOMAIN vs |-> IF k \in DOMAIN parent THEN parent[k] ELSE vs[k]]

\* .envs(variables): the inherited environment with every variable set
envs(parent, vs) ==
    [k \in DOMAIN parent \cup DOMAIN vs |-> IF k \in DOMAIN vs THEN vs[k] ELSE parent[k]]

\* Mutant: on a key collision the mapping fetched earlier wins
merge_first_wins(acc, m) ==
    [k \in DOMAIN acc \cup DOMAIN m |-> IF k \in DOMAIN acc THEN acc[k] ELSE m[k]]

\* fold of the plugin mappings: a later mapping overwrites an earlier one
merge(acc, m) ==
    [k \in DOMAIN acc \cup DOMAIN m |-> IF k \in DOMAIN m THEN m[k] ELSE acc[k]]

EmptyMap == [k \in {} |-> ""]

\* one variable fetch: what was asked for and what came back (None: it failed)
Fetch(source, environment, response) ==
    [source |-> source, environment |-> environment, response |-> response]

Failed(e) == Some([kind |-> "Err", error |-> e])
Returned == Some([kind |-> "Ok"])
Exited(code) == Some([kind |-> "Exit", code |-> code])

ExitStatuses == { [code |-> Some(c)] : c \in ExitCodes } \cup { [code |-> None] }

\* Mutant: only a failure of the child ends the process, status 0 returns
finish_nonzero_only(st) ==
    IF st.code # None /\ st.code[1] # 0 THEN Exited(st.code[1]) ELSE Returned

\* Mutant: a child without an exit code makes the command exit with 1
finish_signal_fails(st) == IF st.code # None THEN Exited(st.code[1]) ELSE Exited(1)

\* lines 161-166: if let Some(code) = exit_status.code() { exit(code) } Ok(())
finish(st) == IF st.code # None THEN Exited(st.code[1]) ELSE Returned

----------------------------------------------------------------------------
Init ==
    /\ pc = "environment"
    /\ args \in [service : ServiceArgs, environment : EnvironmentArgs, args : ArgLists]
    /\ linked_project \in [environment : LinkedEnvironments, service : LinkedServices]
    /\ project \in [services : ServiceLists, plugins : PluginLists, environments : {Environments}]
    /\ stdout_tty \in BOOLEAN
    /\ environment_id = None
    /\ service = None
    /\ prompted = FALSE
    /\ prompt = None
    /\ fetches = <<>>
    /\ variables = None
    /\ handler_installs = 0
    /\ handler_result = None
    /\ shell = None
    /\ child = None
    /\ exit_status = None
    /\ result = None

\* lines 102-107: the requested environment is the explicit one when given,
\* otherwise the linked one
requested_environment ==
    IF args.environment # None THEN args.environment[1] ELSE linked_project.environment

\* Mutant: the argument list is checked first, before the environment
MatchEnvironment_args_first ==
    /\ pc = "environment"
    /\ LET matched == get_matched_environment(project, requested_environment, 1)
       IN IF Len(args.args) = 0
          THEN /\ result' = Failed("NoCommandProvided")
               /\ pc' = "done"
               /\ UNCHANGED environment_id
          ELSE IF matched = None
          THEN /\ result' = Failed("EnvironmentNotFound")
               /\ pc' = "done"
               /\ UNCHANGED environment_id
          ELSE /\ environment_id' = Some(matched[1].id)
               /\ pc' = "service"
               /\ UNCHANGED result
    /\ UNCHANGED <<prompt, handler_result, args, linked_project, project, stdout_tty, service, prompted, fetches,
                   variables, handler_installs, shell, child, exit_status>>

\* Mutant: the source is resolved first and its error reported before the
\* environment is looked at
MatchEnvironment_resolves_first ==
    /\ pc = "environment"
    /\ \E choice \in 0..Len(project.services) :
         LET r == get_service_or_plugins(linked_project, project, args.service,
                                         stdout_tty, choice)
             matched == get_matched_environment(project, requested_environment, 1)
         IN IF ~r.ok
            THEN /\ result' = Failed(r.error)
                 /\ pc' = "done"
                 /\ UNCHANGED environment_id
            ELSE IF matched = None
            THEN /\ result' = Failed("EnvironmentNotFound")
                 /\ pc' = "done"
                 /\ UNCHANGED environment_id
            ELSE /\ environment_id' = Some(matched[1].id)
                 /\ pc' = "service"
                 /\ UNCHANGED result
    /\ UNCHANGED <<prompt, handler_result, args, linked_project, project, stdout_tty,
                   service, prompted, fetches, variables, handler_installs, shell, child,
                   exit_status>>

\* lines 102-107
MatchEnvironment ==
    /\ pc = "environment"
    /\ LET matched == get_matched_environment(project, requested_environment, 1)
       IN IF matched = None
          THEN /\ result' = Failed("EnvironmentNotFound")
               /\ pc' = "done"
               /\ UNCHANGED environment_id
          ELSE /\ environment_id' = Some(matched[1].id)
               /\ pc' = "service"
               /\ UNCHANGED result
    /\ UNCHANGED exit_status
    /\ UNCHANGED <<prompt, handler_result, args, linked_project, project, stdout_tty, service, prompted, fetches,
                   variables, handler_installs, shell, child>>

\* line 108
ResolveSource ==
    /\ pc = "service"
    /\ \E choice \in 0..Len(project.services) :
         LET r == get_service_or_plugins(linked_project, project, args.service,
                                         stdout_tty, choice)
         IN /\ prompted' = r.prompted
            /\ prompt' = IF r.prompted
                         THEN Some([items |-> prompt_services(project), choice |-> choice])
                         ELSE None
            /\ IF r.ok
               THEN /\ service' = Some(r.value)
                    /\ pc' = "variables"
                    /\ UNCHANGED result
               ELSE /\ result' = Failed(r.error)
                    /\ pc' = "done"
                    /\ UNCHANGED service
    /\ UNCHANGED exit_status
    /\ UNCHANGED <<handler_result, args, linked_project, project, stdout_tty, environment_id, fetches,
                   variables, handler_installs, shell, child>>

\* Mutant: a failed fetch is taken for an empty mapping and the command goes on
FetchServiceVariables_ignores_error ==
    /\ pc = "variables"
    /\ service[1].tag = "Service"
    /\ \/ \E m \in VarMaps :
            /\ fetches' = Append(fetches, Fetch(service[1].id, environment_id[1], Some(m)))
            /\ variables' = Some(m)
       \/ /\ fetches' = Append(fetches, Fetch(service[1].id, environment_id[1], None))
          /\ variables' = Some(EmptyMap)
    /\ pc' = "handler"
    /\ UNCHANGED <<prompt, handler_result, args, linked_project, project, stdout_tty,
                   environment_id, service, prompted, handler_installs, shell, child,
                   exit_status, result>>

\* lines 111-120: one fetch for the service; it fails or returns a mapping
FetchServiceVariables ==
    /\ pc = "variables"
    /\ service[1].tag = "Service"
    /\ \/ /\ \E m \in VarMaps :
               /\ fetches' = Append(fetches, Fetch(service[1].id, environment_id[1], Some(m)))
               /\ variables' = Some(m)
          /\ pc' = "handler"
          /\ UNCHANGED result
       \/ /\ fetches' = Append(fetches, Fetch(service[1].id, environment_id[1], None))
          /\ result' = Failed("FetchError")
          /\ pc' = "done"
          /\ UNCHANGED variables
    /\ UNCHANGED exit_status
    /\ UNCHANGED <<prompt, handler_result, args, linked_project, project, stdout_tty, environment_id, service,
                   prompted, handler_installs, shell, child>>

\* lines 121-131, get_all_plugin_variables: the next plugin of the list is
\* fetched and its mapping folded into the mappings fetched so far
FetchPluginVariables ==
    /\ pc = "variables"
    /\ service[1].tag = "Plugins"
    /\ Len(fetches) < Len(service[1].ids)
    /\ LET plugin == service[1].ids[Len(fetches) + 1] IN
       \/ /\ \E m \in VarMaps :
               /\ fetches' = Append(fetches, Fetch(plugin, environment_id[1], Some(m)))
               /\ variables' =
                     Some(merge(IF variables = None THEN EmptyMap ELSE variables[1], m))
          /\ UNCHANGED <<pc, result>>
       \/ /\ fetches' = Append(fetches, Fetch(plugin, environment_id[1], None))
          /\ result' = Failed("FetchError")
          /\ pc' = "done"
          /\ variables' = None
    /\ UNCHANGED exit_status
    /\ UNCHANGED <<prompt, handler_result, args, linked_project, project, stdout_tty, environment_id, service,
                   prompted, handler_installs, shell, child>>

\* get_all_plugin_variables returns once every plugin has been fetched
PluginVariablesDone ==
    /\ pc = "variables"
    /\ service[1].tag = "Plugins"
    /\ Len(fetches) = Len(service[1].ids)
    /\ variables' = IF variables = None THEN Some(EmptyMap) ELSE variables
    /\ pc' = "handler"
    /\ UNCHANGED exit_status
    /\ UNCHANGED <<prompt, handler_result, args, linked_project, project, stdout_tty, environment_id, service,
                   prompted, fetches, handler_installs, shell, child, result>>

\* Mutant: the handler is not installed
InstallHandler_skipped ==
    /\ pc = "handler"
    /\ pc' = "args"
    /\ UNCHANGED <<handler_installs, handler_result, result>>
    /\ UNCHANGED <<prompt, args, linked_project, project, stdout_tty, environment_id,
                   service, prompted, fetches, variables, shell, child, exit_status>>

\* Mutant: the Result of set_handler is dropped, a failure does not stop the command
InstallHandler_ignores_error ==
    /\ pc = "handler"
    /\ \/ /\ handler_result' = Some("Ok")
          /\ handler_installs' = handler_installs + 1
       \/ /\ handler_result' = Some("Err")
          /\ UNCHANGED handler_installs
    /\ pc' = "args"
    /\ UNCHANGED result
    /\ UNCHANGED <<prompt, args, linked_project, project, stdout_tty, environment_id,
                   service, prompted, fetches, variables, shell, child, exit_status>>

\* lines 135-138: ctrlc::set_handler(no-op)?
InstallHandler ==
    /\ pc = "handler"
    /\ \/ /\ handler_result' = Some("Ok")
          /\ handler_installs' = handler_installs + 1
          /\ pc' = "args"
          /\ UNCHANGED result
       \/ /\ handler_result' = Some("Err")
          /\ result' = Failed("SetHandlerError")
          /\ pc' = "done"
          /\ UNCHANGED handler_installs
    /\ UNCHANGED exit_status
    /\ UNCHANGED <<prompt, args, linked_project, project, stdout_tty, environment_id, service,
                   prompted, fetches, variables, shell, child>>

\* Mutant: the argument list is not checked
CheckArgs_unchecked ==
    /\ pc = "args"
    /\ pc' = "shell"
    /\ UNCHANGED <<prompt, handler_result, args, linked_project, project, stdout_tty, environment_id, service,
                   prompted, fetches, variables, handler_installs, shell, child,
                   exit_status, result>>

\* lines 140-143
CheckArgs ==
    /\ pc = "args"
    /\ IF Len(args.args) = 0
       THEN /\ result' = Failed("NoCommandProvided")
            /\ pc' = "done"
       ELSE /\ pc' = "shell"
            /\ UNCHANGED result
    /\ UNCHANGED exit_status
    /\ UNCHANGED <<prompt, handler_result, args, linked_project, project, stdout_tty, environment_id, service,
                   prompted, fetches, variables, handler_installs, shell, child>>

\* line 145: get_shell().await
GetShell ==
    /\ pc = "shell"
    /\ \E sh \in Shells : shell' = Some(sh)
    /\ pc' = "spawn"
    /\ UNCHANGED exit_status
    /\ UNCHANGED <<prompt, handler_result, args, linked_project, project, stdout_tty, environment_id, service,
                   prompted, fetches, variables, handler_installs, child, result>>

\* lines 146-159: the child is spawned, or spawning fails
SpawnChild ==
    /\ pc = "spawn"
    /\ \/ /\ child' = Some([program |-> shell[1],
                            args |-> child_args(shell[1], args.args),
                            env |-> envs(ParentEnv, variables[1])])
          /\ pc' = "wait"
          /\ UNCHANGED result
       \/ /\ result' = Failed("SpawnError")
          /\ pc' = "done"
          /\ UNCHANGED child
    /\ UNCHANGED exit_status
    /\ UNCHANGED <<prompt, handler_result, args, linked_project, project, stdout_tty, environment_id, service,
                   prompted, fetches, variables, handler_installs, shell>>

\* lines 159-166: status().await returns the child's ExitStatus; with a code
\* the process exits with it, without one (killed by a signal) command returns
ChildCompletes ==
    /\ pc = "wait"
    /\ \E st \in ExitStatuses :
         /\ exit_status' = Some(st)
         /\ result' = finish(st)
    /\ pc' = "done"
    /\ UNCHANGED <<prompt, handler_result, args, linked_project, project, stdout_tty, environment_id, service,
                   prompted, fetches, variables, handler_installs, shell, child>>

Next ==
    \/ MatchEnvironment
    \/ ResolveSource
    \/ FetchServiceVariables
    \/ FetchPluginVariables
    \/ PluginVariablesDone
    \/ InstallHandler
    \/ CheckArgs
    \/ GetShell
    \/ SpawnChild
    \/ ChildCompletes

Spec == Init /\ [][Next]_vars

----------------------------------------------------------------------------
(* Properties of the source resolver *)

\* the resolver has been called and has returned
Resolved == environment_id # None /\ pc \notin {"environment", "service"}

\* the positions of the services whose name or id is the string
Matching(str) ==
    { i \in 1..Len(project.services) :
        project.services[i].name = str \/ project.services[i].id = str }

NoService == args.service = None /\ linked_project.service = None

\* C1: with an explicit service argument the resolver returns Service(id) of
\* a service whose name or id equals the argument when there is one, and
\* fails with ServiceNotFound when there is none; it does not prompt, whatever
\* the linked service, the number of services and the terminal are.
C1_ExplicitService ==
    (Resolved /\ args.service # None) =>
        /\ ~prompted
        /\ IF Matching(args.service[1]) # {}
           THEN /\ \E i \in Matching(args.service[1]) :
                       service = Some(Service(project.services[i].id))
                /\ (pc = "done" => result # Failed("ServiceNotFound"))
           ELSE /\ service = None
                /\ pc = "done"
                /\ result = Failed("ServiceNotFound")

\* an argument that matches by name a service other than the linked one, in
\* a project with two services, on a terminal
C1_Witness ==
    /\ Resolved
    /\ args.service = Some("s1")
    /\ linked_project.service = Some("s1")
    /\ Len(project.services) = 2
    /\ stdout_tty
    /\ service = Some(Service("s2"))

\* C2: without a service argument and with a linked service the resolver
\* returns Service(linked service) as it is, also when no service of the
\* project has that id, without a prompt and without an error.
C2_LinkedService ==
    (Resolved /\ args.service = None /\ linked_project.service # None) =>
        /\ service = Some(Service(linked_project.service[1]))
        /\ ~prompted
        /\ (pc = "done" =>
              result \notin {Failed("ServiceNotFound"), Failed("AmbiguousServiceSelection")})

\* the linked service is not in the project, which has two services
C2_Witness ==
    /\ Resolved
    /\ args.service = None
    /\ linked_project.service = Some("s1")
    /\ Len(project.services) = 2
    /\ \A i \in 1..Len(project.services) : project.services[i].id # "s1"
    /\ service = Some(Service("s1"))

\* C3: with zero services, no service argument and no linked service the
\* resolver returns Plugins with exactly the project's plugin ids, in order.
C3_PluginsOfProject ==
    (Resolved /\ NoService /\ Len(project.services) = 0) =>
        /\ service = Some(Plugins(project.plugins))
        /\ Len(service[1].ids) = Len(project.plugins)
        /\ (pc = "done" =>
              result \notin {Failed("ServiceNotFound"), Failed("AmbiguousServiceSelection")})

\* two plugins, returned in the project's order
C3_Witness ==
    /\ Resolved
    /\ NoService
    /\ Len(project.services) = 0
    /\ Len(project.plugins) = 2
    /\ service = Some(Plugins(<<"p1", "p2">>))

\* C4: with exactly one service, no service argument and no linked service
\* the resolver returns that service and does not prompt, on a terminal or not.
C4_SoleService ==
    (Resolved /\ NoService /\ Len(project.services) = 1) =>
        /\ service = Some(Service(project.services[1].id))
        /\ ~prompted

\* one service, on a terminal, selected without a prompt
C4_Witness ==
    /\ Resolved
    /\ NoService
    /\ Len(project.services) = 1
    /\ stdout_tty
    /\ service = Some(Service(project.services[1].id))
    /\ ~prompted

\* C5: with two or more services, no service argument, no linked service
\* and no terminal the resolver fails with AmbiguousServiceSelection, no
\* service is selected, nothing is prompted, fetched or spawned.
C5_Ambiguous ==
    (Resolved /\ NoService /\ Len(project.services) >= 2 /\ ~stdout_tty) =>
        /\ pc = "done"
        /\ result = Failed("AmbiguousServiceSelection")
        /\ service = None
        /\ ~prompted
        /\ fetches = <<>>
        /\ variables = None
        /\ child = None

C5_Witness ==
    /\ Resolved
    /\ NoService
    /\ Len(project.services) >= 2
    /\ ~stdout_tty
    /\ result = Failed("AmbiguousServiceSelection")
----------------------------------------------------------------------------
(* Properties of the launcher *)

\* the three stages before the launcher have succeeded
VariablesResolved == environment_id # None /\ service # None /\ pc \notin {"environment", "service", "variables"} /\ variables # None

\* C6: with an empty trailing argument list, once the variables are resolved
\* the command fails with NoCommandProvided; get_shell is not called, no child
\* is spawned and the command does not end through the child's exit code.
C6_NoCommandProvided ==
    Len(args.args) = 0 =>
        /\ shell = None
        /\ child = None
        /\ exit_status = None
        /\ (result # None => result[1].kind # "Exit")
        /\ (VariablesResolved /\ pc = "done" => result = Failed("NoCommandProvided"))

\* C7: with an empty trailing argument list the interrupt handler is never
\* installed: NoCommandProvided is raised before any process state changes.
C7_NoHandlerWithoutCommand ==
    Len(args.args) = 0 => handler_installs = 0

\* every fetch of the resolved source has been issued
AllFetched ==
    /\ service # None
    /\ Len(fetches) = (IF service[1].tag = "Service" THEN 1 ELSE Len(service[1].ids))
    /\ \A i \in 1..Len(fetches) :
         /\ fetches[i].environment = environment_id[1]
         /\ fetches[i].source =
               (IF service[1].tag = "Service" THEN service[1].id ELSE service[1].ids[i])

EnvironmentMatches ==
    \E i \in 1..Len(project.environments) :
        project.environments[i].name = requested_environment

\* C8: NoCommandProvided is reported only after the environment is matched,
\* the source resolved and every variable fetched; with an empty argument
\* list a failure of one of these is the error reported.
C8_NoCommandAfterVariables ==
    (Len(args.args) = 0 /\ pc = "done") =>
        /\ result = Failed("NoCommandProvided") =>
              (environment_id # None /\ service # None /\ variables # None /\ AllFetched)
        /\ ~EnvironmentMatches => result = Failed("EnvironmentNotFound")
        /\ (EnvironmentMatches /\ args.service # None /\ Matching(args.service[1]) = {})
              => result = Failed("ServiceNotFound")
        /\ (EnvironmentMatches /\ NoService /\ Len(project.services) >= 2 /\ ~stdout_tty)
              => result = Failed("AmbiguousServiceSelection")
        /\ (fetches # <<>> /\ variables = None) => result = Failed("FetchError")

\* no arguments and the fetch of the second plugin fails
C8_Witness ==
    /\ Len(args.args) = 0
    /\ pc = "done"
    /\ service # None
    /\ service[1].tag = "Plugins"
    /\ Len(fetches) = 2
    /\ result = Failed("FetchError")

\* the flags of the table of shells
TableFlags(sh) ==
    IF sh \in {"powershell", "pwsh"} THEN <<"/nologo", "-Command", "\"">>
    ELSE IF sh = "cmd" THEN <<"/C">>
    ELSE IF sh = "sh" THEN <<"-c">>
    ELSE <<>>

\* C9: the child is the shell as program, then the flags of the table for
\* that shell, then the trailing arguments as given.
C9_ChildInvocation ==
    child # None =>
        /\ shell # None
        /\ Len(args.args) > 0
        /\ child[1].program = shell[1]
        /\ child[1].args = TableFlags(shell[1]) \o args.args
        /\ Len(child[1].args) = Len(TableFlags(shell[1])) + Len(args.args)

\* pwsh with [echo, hi]
C9_Witness ==
    /\ child # None
    /\ shell = Some("pwsh")
    /\ args.args = <<"echo", "hi">>
    /\ child[1].args = <<"/nologo", "-Command", "\"", "echo", "hi">>

\* C10: when the child ends with exit code n the command ends by exiting
\* with n, not by returning.
C10_ExitCode ==
    (exit_status # None /\ exit_status[1].code # None) =>
        /\ pc = "done"
        /\ result = Exited(exit_status[1].code[1])
        /\ result # Returned

\* the child exits with 0 and so does the command
C10_Witness ==
    /\ exit_status = Some([code |-> Some(0)])
    /\ result = Exited(0)

----------------------------------------------------------------------------
(* Properties of the variable aggregation *)

\* the sources of the resolved variant, in the order they are fetched
Sources == IF service[1].tag = "Service" THEN <<service[1].id>> ELSE service[1].ids

\* the positions of the fetches whose mapping has the key
Having(k) ==
    { i \in 1..Len(fetches) :
        fetches[i].response # None /\ k \in DOMAIN fetches[i].response[1] }

Last(S) == CHOOSE i \in S : \A j \in S : j <= i

\* C11: for the Plugins variant the aggregated mapping has the union of the
\* keys of the fetched mappings, each key with the value of the last plugin in
\* list order that has it; no plugin gives the empty mapping; the child gets
\* these values.
C11_PluginFold ==
    (service # None /\ service[1].tag = "Plugins" /\ variables # None /\ pc # "variables") =>
        /\ Len(fetches) = Len(project.plugins)
        /\ \A i \in 1..Len(fetches) :
              fetches[i].source = project.plugins[i] /\ fetches[i].response # None
        /\ DOMAIN variables[1] = UNION { DOMAIN fetches[i].response[1] : i \in 1..Len(fetches) }
        /\ \A k \in DOMAIN variables[1] :
              variables[1][k] = fetches[Last(Having(k))].response[1][k]
        /\ (Len(project.plugins) = 0 => variables[1] = EmptyMap)
        /\ (child # None => \A k \in DOMAIN variables[1] : child[1].env[k] = variables[1][k])

\* {A:1} then {A:2,B:3} gives {A:2,B:3}
C11_Witness ==
    /\ service # None
    /\ service[1].tag = "Plugins"
    /\ pc = "handler"
    /\ Len(fetches) = 2
    /\ fetches[1].response = Some(("A" :> "1"))
    /\ fetches[2].response = Some(("A" :> "2") @@ ("B" :> "3"))
    /\ variables = Some(("A" :> "2") @@ ("B" :> "3"))

\* C12: a failed variable fetch ends the command with the error of the
\* fetch: it is the last fetch issued, no source is fetched twice, no mapping
\* is kept, the handler is not installed and no child is spawned.
C12_FailFast ==
    (\E i \in 1..Len(fetches) : fetches[i].response = None) =>
        /\ pc = "done"
        /\ result = Failed("FetchError")
        /\ fetches[Len(fetches)].response = None
        /\ \A i \in 1..(Len(fetches) - 1) : fetches[i].response # None
        /\ Len(fetches) <= Len(Sources)
        /\ \A i \in 1..Len(fetches) : fetches[i].source = Sources[i]
        /\ variables = None
        /\ handler_installs = 0
        /\ handler_result = None
        /\ shell = None
        /\ child = None

\* the fetch of the one service fails
C12_Witness ==
    /\ service # None
    /\ service[1].tag = "Service"
    /\ Len(fetches) = 1
    /\ fetches[1].response = None
    /\ result = Failed("FetchError")

----------------------------------------------------------------------------
(* Properties of the interrupt handler, the child's environment and the end *)

\* C13: a spawned child implies the handler is installed; the handler is
\* installed at most once; once installed it stays installed in every later
\* state.
C13_OneWayGate ==
    /\ [](child # None => (handler_installs = 1 /\ handler_result = Some("Ok")))
    /\ [](handler_installs <= 1)
    /\ [][handler_installs >= 1 =>
            (handler_installs' = handler_installs /\ handler_result' = handler_result)]_vars

\* the child has run and ended, the handler is still installed
C13_Witness ==
    /\ child # None
    /\ exit_status # None
    /\ pc = "done"
    /\ handler_installs = 1

\* C14: when set_handler fails the command ends with that error; get_shell
\* is not called and no child is spawned.
C14_HandlerFailure ==
    handler_result = Some("Err") =>
        /\ pc = "done"
        /\ result = Failed("SetHandlerError")
        /\ handler_installs = 0
        /\ shell = None
        /\ child = None
        /\ exit_status = None

\* the installation fails in a run that has a command to run
C14_Witness ==
    /\ handler_result = Some("Err")
    /\ Len(args.args) > 0
    /\ result = Failed("SetHandlerError")

\* C15: in the child's environment every variable of the mapping has the
\* mapping's value, every other key of the parent keeps the parent's value,
\* and there are no other keys.
C15_ChildEnvironment ==
    child # None =>
        /\ \A k \in DOMAIN variables[1] : child[1].env[k] = variables[1][k]
        /\ \A k \in DOMAIN ParentEnv \ DOMAIN variables[1] : child[1].env[k] = ParentEnv[k]
        /\ DOMAIN ParentEnv \subseteq DOMAIN child[1].env
        /\ DOMAIN child[1].env = DOMAIN ParentEnv \cup DOMAIN variables[1]

\* the parent has A = 0, the mapping A = 2 and B = 3
C15_Witness ==
    /\ child # None
    /\ ParentEnv["A"] = "0"
    /\ variables = Some(("A" :> "2") @@ ("B" :> "3"))
    /\ child[1].env = ("A" :> "2") @@ ("B" :> "3") @@ ("HOME" :> "/root")

\* C16: when the child ends without an exit code (killed by a signal) the
\* command returns Ok: no error, no exit with a code.
C16_SignalIsSuccess ==
    (exit_status # None /\ exit_status[1].code = None) =>
        /\ pc = "done"
        /\ result = Returned

C16_Witness ==
    /\ exit_status = Some([code |-> None])
    /\ child # None
    /\ result = Returned

----------------------------------------------------------------------------
(* Order of the stages *)

\* the environment name asked for: --environment when given, else the linked one
Requested ==
    IF args.environment = None THEN linked_project.environment ELSE args.environment[1]

RequestedPositions ==
    { i \in 1..Len(project.environments) : project.environments[i].name = Requested }

ResolverErrors ==
    { Failed("ServiceNotFound"), Failed("AmbiguousServiceSelection"), Failed("PromptAborted") }

\* C17: the environment is matched before the source is resolved and the
\* source is resolved before any variable is fetched; an environment name
\* that matches nothing ends the command with EnvironmentNotFound with no
\* service resolved, no prompt and no fetch; a failed resolution issues no
\* fetch.
C17_StageOrder ==
    /\ (service # None \/ prompted \/ prompt # None \/ result \in ResolverErrors) =>
          \E i \in RequestedPositions : environment_id = Some(project.environments[i].id)
    /\ fetches # <<>> =>
          /\ environment_id # None
          /\ service # None
          /\ \A i \in 1..Len(fetches) : fetches[i].environment = environment_id[1]
    /\ (RequestedPositions = {} /\ pc # "environment") =>
          /\ pc = "done"
          /\ result = Failed("EnvironmentNotFound")
          /\ environment_id = None
          /\ service = None
          /\ ~prompted
          /\ prompt = None
          /\ fetches = <<>>
    /\ result \in ResolverErrors =>
          /\ service = None
          /\ fetches = <<>>
          /\ variables = None

\* --environment names no environment while the linked one would match, and
\* the service argument matches no service: the error is EnvironmentNotFound
C17_Witness ==
    /\ args.environment = Some("missing")
    /\ linked_project.environment = "production"
    /\ args.service = Some("s1")
    /\ Len(project.services) = 0
    /\ pc = "done"
    /\ result = Failed("EnvironmentNotFound")
    /\ service = None

----------------------------------------------------------------------------
(* The prompt, and the variant returned *)

\* C18: the prompt is invoked only with no service argument, no linked
\* service, two or more services and a terminal; in the cases with a service
\* argument, a linked service or fewer than two services the resolver's
\* outcome is the same for both terminal states (stated of the inputs the
\* resolver is about to be called with); the items offered are the
\* project's services, the id returned is the id of the chosen item, and an
\* aborted prompt fails the resolution with no service selected.
C18_PromptLastResort ==
    /\ prompted <=> prompt # None
    /\ prompted =>
          (NoService /\ Len(project.services) >= 2 /\ stdout_tty /\ environment_id # None)
    /\ (pc = "service" /\ ~(NoService /\ Len(project.services) >= 2)) =>
          \A c \in 0..Len(project.services) :
              get_service_or_plugins(linked_project, project, args.service, TRUE, c)
                = get_service_or_plugins(linked_project, project, args.service, FALSE, c)
    /\ prompt # None =>
          /\ prompt[1].items = project.services
          /\ prompt[1].choice \in 0..Len(project.services)
          /\ prompt[1].choice >= 1 =>
                service = Some(Service(project.services[prompt[1].choice].id))
          /\ prompt[1].choice = 0 =>
                /\ service = None
                /\ pc = "done"
                /\ result = Failed("PromptAborted")
                /\ fetches = <<>>

\* the user picks the second of two services
C18_Witness ==
    /\ prompt # None
    /\ Len(project.services) = 2
    /\ prompt[1].choice = 2
    /\ service = Some(Service(project.services[2].id))

First(S) == CHOOSE i \in S : \A j \in S : i <= j

\* C19: when the service argument matches more than one service the id
\* returned is the id of the first match in the project's order, whether it
\* matches by name or by id.
C19_FirstMatch ==
    (Resolved /\ args.service # None /\ Matching(args.service[1]) # {}) =>
        service = Some(Service(project.services[First(Matching(args.service[1]))].id))

\* the argument is the name of the first service and the id of the second
C19_Witness ==
    /\ Resolved
    /\ args.service = Some("s1")
    /\ Len(project.services) = 2
    /\ project.services[1].name = "s1"
    /\ project.services[1].id = "s2"
    /\ project.services[2].id = "s1"
    /\ service = Some(Service("s2"))

ProjectServiceIds == { project.services[i].id : i \in 1..Len(project.services) }

\* C20: a result is one variant, Service with an id or Plugins with a list;
\* it is Plugins only with zero services, no service argument and no linked
\* service; a Service id that does not come from the linked service is the id
\* of a service of the project.
C20_OneVariant ==
    service # None =>
        /\ \/ (service[1].tag = "Service" /\ DOMAIN service[1] = {"tag", "id"})
           \/ (service[1].tag = "Plugins" /\ DOMAIN service[1] = {"tag", "ids"})
        /\ service[1].tag = "Plugins" =>
              (Len(project.services) = 0 /\ NoService /\ service[1].ids = project.plugins)
        /\ (service[1].tag = "Service"
               /\ (args.service # None \/ linked_project.service = None)) =>
              service[1].id \in ProjectServiceIds
        /\ (service[1].tag = "Service" /\ service[1].id \notin ProjectServiceIds) =>
              (args.service = None /\ linked_project.service = Some(service[1].id))

\* matched by name: the id returned is the service's id, not the argument
C20_Witness ==
    /\ service = Some(Service("s2"))
    /\ args.service = Some("s1")
    /\ "s1" \notin ProjectServiceIds
    /\ "s2" \in ProjectServiceIds

====
